---- MODULE Spec2Model ----
(***************************************************************************)
(* Model of the HX711 driver of src/src/hx711.py: the PIO protocol engine  *)
(* (_hx711_reader.program, one action per instruction), the two hardware   *)
(* FIFOs between engine and host, the HX711 chip as far as the engine      *)
(* observes it (data line, bits shifted out on rising clock edges), and    *)
(* the host operations of class hx711, one step per access to the lock,    *)
(* the state machine, the FIFOs, the clock pin or the microsecond clock.   *)
(***************************************************************************)
EXTENDS Integers, Sequences, FiniteSets, TLC

(* ------------------------------ bounds -------------------------------- *)
\* conversions the chip completes in one behaviour
MaxConv == 3
\* last value of the microsecond clock
MaxTime == 2
\* public operations called in one behaviour
MaxCalls == 3
\* conversions the chip completes in a behaviour of EngineSpec
MaxEngineConv == 5
\* raw words this close to 0x000000, to 0x7fffff / 0x800000 and to 0xffffff
\* are decoded
RawSpan == 4
\* rate indices from -MaxRate to MaxRate are looked up
MaxRate == 3
\* public operations called in a behaviour of CycleSpec
MaxCycleCalls == 4

(* ------------------------- program constants -------------------------- *)
READ_BITS == 24
PUSH_BITS == 24
\* depth of each PIO FIFO with fifo_join=PIO.JOIN_NONE
FifoDepth == 4
\* a bit loop one turn short
BitLoopShort == READ_BITS - 2

\* set(y, 23): the bit loop counter, 0 based
BitLoopInit == 23
MIN_VALUE == -8388608
MAX_VALUE == 8388607
\* value of y after jmp(y_dec) decrements it from 0; it stands for the
\* all-ones word and is overwritten by set(y, ..) or mov(y, x) before any use
RegMax == 2147483647

Threads == {"main", "reader"}
\* no thread holds the lock
Nobody == "nobody"
Gains == {0, 1, 2}
Timeouts == {1, 2}
RawVals == {0, 8388609}


CLOCK_PULSES == <<25, 26, 27>>

get_clock_pulses(gain) == CLOCK_PULSES[gain + 1]

gain_to_pio_gain(gain) == get_clock_pulses(gain) - READ_BITS - 1

RECURSIVE Pow2(_)
Pow2(n) == IF n = 0 THEN 1 ELSE 2 * Pow2(n - 1)

\* bit k of word w
Bit(w, k) == (w \div Pow2(k)) % 2

\* Python's None: the first number that is neither a 24-bit word nor a reading
NoneVal == Pow2(READ_BITS)

\* no gain code: the chip's gain was not set by a cycle of the engine
NoCode == Cardinality(Gains)

\* a mask that drops the sign bit
AndMinNone(raw) == 0

\* raw & +MIN_VALUE: MIN_VALUE is -0x800000, whose bits are all ones above
\* its low 23 zeros, so the low 23 bits of raw are cleared
AndMin(raw) == raw - (raw % (0 - MIN_VALUE))

\* raw & MAX_VALUE
AndMax(raw) == raw % (MAX_VALUE + 1)

get_twos_comp(raw) == (0 - AndMin(raw)) + AndMax(raw)

\* truth value of `val` in `... if val else None`
Truthy(v) == v # NoneVal /\ v # 0

SETTLING_TIMES == <<400, 50>>

\* the result of an index that raises IndexError
IndexError == -1

\* list[i] of Python: a negative index counts from the end of the list, an
\* index outside -len .. len - 1 raises IndexError
ListIndex(list, i) ==
    IF i >= 0 /\ i < Len(list) THEN list[i + 1]
    ELSE IF i < 0 /\ i >= 0 - Len(list) THEN list[Len(list) + i + 1]
    ELSE IndexError

get_settling_time(rate) == ListIndex(SETTLING_TIMES, rate)

\* no settling time looked up yet
NotCalled == 0

\* the 24-bit words given to get_twos_comp: those around the two ends of the
\* range and around the sign change, and the words of a single bit
RawInputs ==
    (0 .. RawSpan)
        \cup ((MAX_VALUE - RawSpan) .. (MAX_VALUE + 1 + RawSpan))
        \cup ((Pow2(READ_BITS) - 1 - RawSpan) .. (Pow2(READ_BITS) - 1))
        \cup {Pow2(k) : k \in 0 .. (READ_BITS - 1)}

\* the rate indices given to get_settling_time
RateInputs == (0 - MaxRate) .. MaxRate

VARIABLES
    \* engine (PIO state machine)
    smActive, loaded, epc, x, y, osr, isr, isrCount, clk, txfifo, rxfifo,
    \* chip
    ready, chipRaw, shifted, convs,
    \* observation of the engine's cycles
    cyc, pulses, lastCode, lastPulses, convCode, isrCycs,
    \* host
    mut, holder, now, calls, pc, op, arg, val, obs,
    \* observation of the host's reads
    delivered, pending,
    \* observation of power_up: the cycle count and the gain code of the last start
    up,
    \* a second driver instance, on another state machine
    other,
    \* a call of a class method: its argument and its result
    rawIn, signed, rateIn, settling

engineVars == <<smActive, loaded, epc, x, y, osr, isr, isrCount, clk, txfifo, rxfifo>>
chipVars == <<ready, chipRaw, shifted, convs>>
cycleVars == <<cyc, pulses, lastCode, lastPulses, convCode, isrCycs>>
hostVars == <<mut, holder, now, calls, pc, op, arg, val, obs>>
readVars == <<delivered, pending>>
fnVars == <<rawIn, signed, rateIn, settling>>
restVars == <<up, other, fnVars>>
vars == <<engineVars, chipVars, cycleVars, hostVars, readVars, restVars>>

\* the engine was not started yet
NoUp == [cyc |-> 0, code |-> NoCode]

\* sm_index of the instance the model follows: the default argument
SmIndex == 0

\* sm_index of a second instance: the next state machine of the same PIO
\* block, and the first state machine of the other block
OtherSlots == {1, 4}

\* _util.get_pio_from_sm_index: PIO(sm_index >> 2)
get_pio_from_sm_index(sm_index) == sm_index \div 4

\* no second instance was constructed
NoOther == [slot |-> 0, made |-> FALSE, active |-> FALSE, loaded |-> FALSE]

NoObs == [n |-> 0, head |-> NoneVal, code |-> NoCode, want |-> NoCode, saw |-> FALSE]

\* the driver after construction
DriverInit ==
    /\ smActive = FALSE
    /\ loaded = TRUE
    /\ epc = "set_x"
    /\ x = 0 /\ y = 0 /\ osr = 0 /\ isr = 0 /\ isrCount = 0
    /\ clk = 0
    /\ txfifo = <<>> /\ rxfifo = <<>>
    /\ ready = FALSE /\ chipRaw = 0 /\ shifted = 0 /\ convs = 0
    /\ cyc = 0 /\ pulses = 0 /\ lastCode = NoCode /\ lastPulses = 0
    /\ convCode = NoCode /\ isrCycs = {}
    /\ mut = FALSE /\ holder = Nobody /\ now = 0 /\ calls = 0
    /\ pc = [t \in Threads |-> "idle"]
    /\ op = [t \in Threads |-> "none"]
    /\ arg = [t \in Threads |-> 0]
    /\ val = [t \in Threads |-> NoneVal]
    /\ obs = [t \in Threads |-> NoObs]
    /\ delivered = <<>>
    /\ pending = NoCode
    /\ up = NoUp
    /\ other = NoOther

Init ==
    /\ DriverInit
    /\ rawIn = 0 /\ signed = NoneVal
    /\ rateIn = 0 /\ settling = NotCalled


(* ------------------------------- chip --------------------------------- *)
\* level of the data line: low when a conversion is ready, then the bit the
\* chip shifted out on the last rising clock edge, high while converting
Dout ==
    IF ready
    THEN (IF shifted = 0 THEN 0 ELSE Bit(chipRaw, READ_BITS - shifted))
    ELSE 1

Rising(v) == clk = 0 /\ v = 1

\* the chip on a clock level v: a rising edge shifts out the next bit, the
\* 25th one returns the data line high
ChipEdge(v) ==
    /\ shifted' = IF Rising(v) /\ ready THEN shifted + 1 ELSE shifted
    /\ ready' = IF Rising(v) /\ ready THEN shifted + 1 <= READ_BITS ELSE ready
    /\ UNCHANGED <<chipRaw, convs>>

\* the positions of the program before wrap_target, passed once after a start
Preamble == {"set_x", "pull0", "out0"}

\* the positions of the program between two conversion cycles
PreCycle == {"set_x", "pull0", "out0", "set_y", "wait"}

\* The chip completes a conversion: a conversion takes milliseconds and a
\* cycle of the running engine microseconds, so none completes inside one.
ChipConverts(max) ==
    /\ convs < max
    /\ clk = 0
    /\ ~ready \/ shifted > 0
    /\ ~smActive \/ epc \in PreCycle
    /\ \E r \in RawVals : chipRaw' = r
    /\ ready' = TRUE
    /\ shifted' = 0
    /\ convs' = convs + 1
    /\ UNCHANGED <<engineVars, cycleVars, hostVars, readVars>>
    /\ UNCHANGED restVars

ChipReady == ChipConverts(MaxConv)

\* the same chip, observed for more conversions with the host not reading
ChipReadyLong == ChipConverts(MaxEngineConv)

(* ------------------------ engine: the program ------------------------- *)
\* the engine drives the clock line (set(pins, v) or .side(v))
EngineClk(v) ==
    /\ clk' = v
    /\ pulses' = IF Rising(v) THEN pulses + 1 ELSE pulses
    /\ ChipEdge(v)

\* a pull that loads the default code 0 when the TX FIFO is empty
PullNoblockDefault ==
    IF txfifo # <<>>
    THEN osr' = Head(txfifo) /\ txfifo' = Tail(txfifo)
    ELSE osr' = 0 /\ txfifo' = txfifo

\* pull(noblock): the oldest word of the TX FIFO, or x when it is empty
PullNoblock ==
    IF txfifo # <<>>
    THEN osr' = Head(txfifo) /\ txfifo' = Tail(txfifo)
    ELSE osr' = x /\ txfifo' = txfifo

\* jmp(y_dec, ..): y after the decrement
YDec == IF y = 0 THEN RegMax ELSE y - 1

\* autopush: the IN stalls while the ISR is at the threshold and the RX FIFO is full
PushStalls == isrCount + 1 >= PUSH_BITS /\ Len(rxfifo) >= FifoDepth

\* the instruction the engine cannot complete
EngineStalled == smActive /\ epc = "in" /\ PushStalls

\* end of a conversion cycle: the program wraps to wrap_target
CycleEnd ==
    /\ epc' = "set_y"
    /\ lastCode' = x
    /\ lastPulses' = pulses'

\* set(x, 0)
EngSetX ==
    /\ smActive /\ epc = "set_x"
    /\ x' = 0
    /\ epc' = "pull0"
    /\ UNCHANGED <<smActive, loaded, y, osr, isr, isrCount, clk, txfifo, rxfifo>>
    /\ UNCHANGED <<chipVars, cycleVars, hostVars, readVars>>
    /\ UNCHANGED restVars

\* pull(noblock)
EngPull0 ==
    /\ smActive /\ epc = "pull0"
    /\ PullNoblock
    /\ epc' = "out0"
    /\ UNCHANGED <<smActive, loaded, x, y, isr, isrCount, clk, rxfifo>>
    /\ UNCHANGED <<chipVars, cycleVars, hostVars, readVars>>
    /\ UNCHANGED restVars

\* out(x, 32)
EngOut0 ==
    /\ smActive /\ epc = "out0"
    /\ x' = osr
    /\ osr' = 0
    /\ epc' = "set_y"
    /\ UNCHANGED <<smActive, loaded, y, isr, isrCount, clk, txfifo, rxfifo>>
    /\ UNCHANGED <<chipVars, cycleVars, hostVars, readVars>>
    /\ UNCHANGED restVars

\* set(y, 23)
EngSetY ==
    /\ smActive /\ epc = "set_y"
    /\ y' = BitLoopInit
    /\ epc' = "wait"
    /\ UNCHANGED <<smActive, loaded, x, osr, isr, isrCount, clk, txfifo, rxfifo>>
    /\ UNCHANGED <<chipVars, cycleVars, hostVars, readVars>>
    /\ UNCHANGED restVars

\* wait(0, pin, 0): a conversion cycle starts
EngWait ==
    /\ smActive /\ epc = "wait"
    /\ Dout = 0
    /\ epc' = "set_hi"
    /\ cyc' = cyc + 1
    /\ pulses' = 0
    /\ convCode' = lastCode
    /\ UNCHANGED <<smActive, loaded, x, y, osr, isr, isrCount, clk, txfifo, rxfifo>>
    /\ UNCHANGED <<lastCode, lastPulses, isrCycs>>
    /\ UNCHANGED <<chipVars, hostVars, readVars>>
    /\ UNCHANGED restVars

\* set(pins, 1)
EngSetHi ==
    /\ smActive /\ epc = "set_hi"
    /\ EngineClk(1)
    /\ epc' = "in"
    /\ UNCHANGED <<smActive, loaded, x, y, osr, isr, isrCount, txfifo, rxfifo>>
    /\ UNCHANGED <<cyc, lastCode, lastPulses, convCode, isrCycs>>
    /\ UNCHANGED <<hostVars, readVars>>
    /\ UNCHANGED restVars

\* in_(pins, 1) with autopush at push_thresh: the ISR never holds more than
\* PUSH_BITS bits, so the shift never reaches the register's width
EngIn ==
    /\ smActive /\ epc = "in"
    /\ ~PushStalls
    /\ IF isrCount + 1 >= PUSH_BITS
       THEN /\ rxfifo' = Append(rxfifo,
                    [raw |-> isr * 2 + Dout, id |-> cyc, code |-> convCode,
                     cycs |-> isrCycs \cup {cyc}])
            /\ isr' = 0
            /\ isrCount' = 0
            /\ isrCycs' = {}
       ELSE /\ isr' = isr * 2 + Dout
            /\ isrCount' = isrCount + 1
            /\ isrCycs' = isrCycs \cup {cyc}
            /\ rxfifo' = rxfifo
    /\ epc' = "jmp_bit"
    /\ UNCHANGED <<smActive, loaded, x, y, osr, clk, txfifo>>
    /\ UNCHANGED <<cyc, pulses, lastCode, lastPulses, convCode>>
    /\ UNCHANGED <<chipVars, hostVars, readVars>>
    /\ UNCHANGED restVars

\* jmp(y_dec, "bitloop").side(0)
EngJmpBit ==
    /\ smActive /\ epc = "jmp_bit"
    /\ EngineClk(0)
    /\ epc' = IF y # 0 THEN "set_hi" ELSE "pull"
    /\ y' = YDec
    /\ UNCHANGED <<smActive, loaded, x, osr, isr, isrCount, txfifo, rxfifo>>
    /\ UNCHANGED <<cyc, lastCode, lastPulses, convCode, isrCycs>>
    /\ UNCHANGED <<hostVars, readVars>>
    /\ UNCHANGED restVars

\* pull(noblock).side(1)
EngPull ==
    /\ smActive /\ epc = "pull"
    /\ EngineClk(1)
    /\ PullNoblock
    /\ epc' = "out"
    /\ UNCHANGED <<smActive, loaded, x, y, isr, isrCount, rxfifo>>
    /\ UNCHANGED <<cyc, lastCode, lastPulses, convCode, isrCycs>>
    /\ UNCHANGED <<hostVars, readVars>>
    /\ UNCHANGED restVars

\* out(x, 32)
EngOut ==
    /\ smActive /\ epc = "out"
    /\ x' = osr
    /\ osr' = 0
    /\ epc' = "jmp_notx"
    /\ UNCHANGED <<smActive, loaded, y, isr, isrCount, clk, txfifo, rxfifo>>
    /\ UNCHANGED <<chipVars, cycleVars, hostVars, readVars>>
    /\ UNCHANGED restVars

\* jmp(not_x, "wrap_target").side(0)
EngJmpNotX ==
    /\ smActive /\ epc = "jmp_notx"
    /\ EngineClk(0)
    /\ IF x = 0
       THEN CycleEnd
       ELSE epc' = "mov" /\ UNCHANGED <<lastCode, lastPulses>>
    /\ UNCHANGED <<smActive, loaded, x, y, osr, isr, isrCount, txfifo, rxfifo>>
    /\ UNCHANGED <<cyc, convCode, isrCycs>>
    /\ UNCHANGED <<hostVars, readVars>>
    /\ UNCHANGED restVars

\* mov(y, x)
EngMov ==
    /\ smActive /\ epc = "mov"
    /\ y' = x
    /\ epc' = "gain_hi"
    /\ UNCHANGED <<smActive, loaded, x, osr, isr, isrCount, clk, txfifo, rxfifo>>
    /\ UNCHANGED <<chipVars, cycleVars, hostVars, readVars>>
    /\ UNCHANGED restVars

\* set(pins, 1) of the gain loop
EngGainHi ==
    /\ smActive /\ epc = "gain_hi"
    /\ EngineClk(1)
    /\ epc' = "jmp_gain"
    /\ UNCHANGED <<smActive, loaded, x, y, osr, isr, isrCount, txfifo, rxfifo>>
    /\ UNCHANGED <<cyc, lastCode, lastPulses, convCode, isrCycs>>
    /\ UNCHANGED <<hostVars, readVars>>
    /\ UNCHANGED restVars

\* jmp(y_dec, "gainloop").side(0), then wrap()
EngJmpGain ==
    /\ smActive /\ epc = "jmp_gain"
    /\ EngineClk(0)
    /\ IF y # 0
       THEN epc' = "gain_hi" /\ UNCHANGED <<lastCode, lastPulses>>
       ELSE CycleEnd
    /\ y' = YDec
    /\ UNCHANGED <<smActive, loaded, x, osr, isr, isrCount, txfifo, rxfifo>>
    /\ UNCHANGED <<cyc, convCode, isrCycs>>
    /\ UNCHANGED <<hostVars, readVars>>
    /\ UNCHANGED restVars

EngineStep ==
    \/ EngSetX \/ EngPull0 \/ EngOut0 \/ EngSetY \/ EngWait
    \/ EngSetHi \/ EngIn \/ EngJmpBit
    \/ EngPull \/ EngOut \/ EngJmpNotX \/ EngMov \/ EngGainHi \/ EngJmpGain


(* ------------------------- host: _util helpers ------------------------ *)
\* sm.rx_fifo() and sm.tx_fifo(): the number of words in the FIFO
rx_fifo == Len(rxfifo)
tx_fifo == Len(txfifo)

\* the newest word of the RX FIFO
RxNewest == IF rxfifo = <<>> THEN NoObs.head ELSE rxfifo[Len(rxfifo)].raw

\* the word sm.get() takes: the oldest one of the RX FIFO
RxOldest == IF rxfifo = <<>> THEN NoObs.head ELSE rxfifo[1].raw

\* an RX FIFO that keeps the word it hands out
RxAfterGetKept == rxfifo

\* the RX FIFO after sm.get()
RxAfterGet == IF rxfifo = <<>> THEN rxfifo ELSE Tail(rxfifo)

\* _util.sm_get_blocking leaves its loop (and sm.get() returns) once the RX FIFO holds a word
sm_get_blocking_ready == rx_fifo # 0

\* _try_get_value: words = READ_BITS / 8, sm.get() if sm.rx_fifo() >= words else None
try_get_ready == rx_fifo * 8 >= READ_BITS

\* a loop that gives up one microsecond before endTime
TimeoutRunningEarly(endTime) == now + 1 < endTime

\* the loop condition of get_value_timeout: time.ticks_us() < endTime
TimeoutRunning(endTime) == now < endTime

\* sm.get() by thread t: the sample leaves the RX FIFO
SmGet(t) ==
    /\ rxfifo # <<>>
    /\ val' = [val EXCEPT ![t] = RxOldest]
    /\ rxfifo' = RxAfterGet
    /\ delivered' = Append(delivered, rxfifo[1].id)

LockPcs == {"gv_lock", "gvt_lock", "gvn_lock", "sg_lock", "pu_lock", "pd_lock", "cl_lock"}

UnlockPcs == {"gv_unlock", "gvt_unlock", "gvn_unlock", "sg_unlock", "pu_unlock",
              "pd_unlock", "cl_unlock"}

\* the positions inside a `with self._mut:` block
GuardedPcs == {"gv_read", "gvt_loop", "gvn_try", "sg_drain", "sg_put", "sg_get",
               "sg_getb", "pu_low", "pu_restart", "pu_drain", "pu_put", "pu_active",
               "pd_stop", "pd_high", "cl_stop", "cl_remove"} \cup UnlockPcs

\* the first position inside the `with self._mut:` block of each operation
AfterLock(p) ==
    CASE p = "gv_lock" -> "gv_read"
      [] p = "gvt_lock" -> "gvt_loop"
      [] p = "gvn_lock" -> "gvn_try"
      [] p = "sg_lock" -> "sg_drain"
      [] p = "pu_lock" -> "pu_low"
      [] p = "pd_lock" -> "pd_stop"
      [] OTHER -> "cl_stop"

\* the value get_value_timeout and get_value_noblock return for val
ReturnOf(v) == IF Truthy(v) THEN get_twos_comp(v) ELSE NoneVal

(* ------------------------- host: the operations ----------------------- *)
\* a thread calls a public operation; a closed instance is not used again
CanCallUpTo(max, t) == pc[t] = "idle" /\ calls < max /\ loaded

CanCall(t) == CanCallUpTo(MaxCalls, t)

\* the call number max at most
CallUpTo(max, t, name, first, a) ==
    /\ CanCallUpTo(max, t)
    /\ calls' = calls + 1
    /\ pc' = [pc EXCEPT ![t] = first]
    /\ op' = [op EXCEPT ![t] = name]
    /\ arg' = [arg EXCEPT ![t] = a]
    /\ val' = [val EXCEPT ![t] = NoneVal]
    /\ obs' = [obs EXCEPT ![t] = NoObs]
    /\ UNCHANGED <<mut, holder, now, delivered>>
    /\ UNCHANGED <<engineVars, chipVars, cycleVars>>
    /\ UNCHANGED restVars

Call(t, name, first, a) == CallUpTo(MaxCalls, t, name, first, a)

CallGetValue(t) == Call(t, "get_value", "gv_lock", 0) /\ UNCHANGED pending

\* endTime = time.ticks_us() + timeout
CallGetValueTimeout(t) ==
    \E timeout \in Timeouts :
        /\ now + timeout <= MaxTime
        /\ Call(t, "get_value_timeout", "gvt_lock", now + timeout)
        /\ UNCHANGED pending

CallGetValueNoblock(t) == Call(t, "get_value_noblock", "gvn_lock", 0) /\ UNCHANGED pending

\* pioGain = gain_to_pio_gain(gain)
CallSetGain(t) ==
    \E g \in Gains : Call(t, "set_gain", "sg_lock", gain_to_pio_gain(g)) /\ pending' = NoCode

\* power_up is called on a stopped engine: after construction or after power_down
CallPowerUp(t) ==
    /\ ~smActive
    /\ \E g \in Gains : Call(t, "power_up", "pu_lock", gain_to_pio_gain(g)) /\ pending' = NoCode

CallPowerDown(t) == Call(t, "power_down", "pd_lock", 0) /\ pending' = NoCode

CallClose(t) == Call(t, "close", "cl_lock", 0) /\ UNCHANGED pending

CallExit(t) == Call(t, "__exit__", "ex_check", 0) /\ UNCHANGED pending

\* a thread moves to position p
Goto(t, p) == pc' = [pc EXCEPT ![t] = p]

\* a lock that never makes a thread wait
LockAvailableAlways == TRUE

\* `with self._mut:` waits while the lock is locked
LockAvailable == ~mut

\* entering `with self._mut:`
Acquire(t) ==
    /\ pc[t] \in LockPcs
    /\ LockAvailable
    /\ mut' = TRUE
    /\ holder' = t
    /\ Goto(t, AfterLock(pc[t]))
    /\ UNCHANGED <<now, calls, op, arg, val, obs>>
    /\ UNCHANGED <<engineVars, chipVars, cycleVars, readVars>>
    /\ UNCHANGED restVars

\* leaving `with self._mut:` and returning; releasing a lock that is not
\* locked raises, and the operation ends with the error
Release(t) ==
    /\ pc[t] \in UnlockPcs
    /\ mut' = FALSE
    /\ holder' = Nobody
    /\ pending' = IF pc[t] = "sg_unlock" /\ mut THEN arg[t] ELSE pending
    /\ Goto(t, "idle")
    /\ op' = [op EXCEPT ![t] = "none"]
    /\ arg' = [arg EXCEPT ![t] = 0]
    /\ val' = [val EXCEPT ![t] = NoneVal]
    /\ obs' = [obs EXCEPT ![t] = NoObs]
    /\ UNCHANGED <<now, calls, delivered>>
    /\ UNCHANGED <<engineVars, chipVars, cycleVars>>
    /\ UNCHANGED restVars

\* get_value: rawVal = _util.sm_get_blocking(self._sm)
GetValueRead(t) ==
    /\ pc[t] = "gv_read"
    /\ sm_get_blocking_ready
    /\ SmGet(t)
    /\ obs' = [obs EXCEPT ![t] = [NoObs EXCEPT !.n = rx_fifo, !.head = RxOldest,
                                               !.code = rxfifo[1].code, !.want = pending]]
    /\ pending' = NoCode
    /\ Goto(t, "gv_unlock")
    /\ UNCHANGED <<mut, holder, now, calls, op, arg>>
    /\ UNCHANGED <<smActive, loaded, epc, x, y, osr, isr, isrCount, clk, txfifo>>
    /\ UNCHANGED <<chipVars, cycleVars>>
    /\ UNCHANGED restVars

\* the result of _try_get_value recorded by thread t
TryGetValue(t) ==
    /\ obs' = [obs EXCEPT ![t].n = rx_fifo, ![t].head = RxOldest,
                          ![t].saw = obs[t].saw \/ rx_fifo # 0]
    /\ IF try_get_ready
       THEN SmGet(t) /\ pending' = NoCode
       ELSE UNCHANGED <<val, rxfifo, delivered, pending>>

\* get_value_timeout: one turn of the loop, val = self._try_get_value(); if val != None: break
TimeoutPoll(t) ==
    /\ pc[t] = "gvt_loop"
    /\ TimeoutRunning(arg[t])
    /\ TryGetValue(t)
    /\ Goto(t, IF val'[t] # NoneVal THEN "gvt_unlock" ELSE "gvt_loop")
    /\ UNCHANGED <<mut, holder, now, calls, op, arg>>
    /\ UNCHANGED <<smActive, loaded, epc, x, y, osr, isr, isrCount, clk, txfifo>>
    /\ UNCHANGED <<chipVars, cycleVars>>
    /\ UNCHANGED restVars

\* get_value_timeout: the loop condition fails
TimeoutExpire(t) ==
    /\ pc[t] = "gvt_loop"
    /\ ~TimeoutRunning(arg[t])
    /\ Goto(t, "gvt_unlock")
    /\ UNCHANGED <<mut, holder, now, calls, op, arg, val, obs>>
    /\ UNCHANGED <<engineVars, chipVars, cycleVars, readVars>>
    /\ UNCHANGED restVars

\* get_value_noblock: val = self._try_get_value()
NoblockTry(t) ==
    /\ pc[t] = "gvn_try"
    /\ TryGetValue(t)
    /\ Goto(t, "gvn_unlock")
    /\ UNCHANGED <<mut, holder, now, calls, op, arg>>
    /\ UNCHANGED <<smActive, loaded, epc, x, y, osr, isr, isrCount, clk, txfifo>>
    /\ UNCHANGED <<chipVars, cycleVars>>
    /\ UNCHANGED restVars

\* _util.sm_drain_tx_fifo: `while sm.tx_fifo() != 0: sm.exec("pull() noblock")`,
\* each exec a pull(noblock) the engine executes at once: every queued word
\* is pulled into the OSR in turn, which holds the last one when the loop ends
DrainStep(t, p, q) ==
    /\ pc[t] = p
    /\ IF tx_fifo # 0
       THEN osr' = txfifo[Len(txfifo)] /\ txfifo' = <<>>
       ELSE UNCHANGED <<osr, txfifo>>
    /\ Goto(t, q)
    /\ UNCHANGED <<smActive, loaded, epc, x, y, isr, isrCount, clk, rxfifo>>
    /\ UNCHANGED <<mut, holder, now, calls, op, arg, val, obs>>
    /\ UNCHANGED <<chipVars, cycleVars, readVars>>
    /\ UNCHANGED restVars

\* self._sm.put(pioGain) queues the gain code
PutStep(t, p, q) ==
    /\ pc[t] = p
    /\ txfifo' = Append(txfifo, arg[t])
    /\ Goto(t, q)
    /\ UNCHANGED <<smActive, loaded, epc, x, y, osr, isr, isrCount, clk, rxfifo>>
    /\ UNCHANGED <<mut, holder, now, calls, op, arg, val, obs>>
    /\ UNCHANGED <<chipVars, cycleVars, readVars>>
    /\ UNCHANGED restVars

\* set_gain: _util.sm_drain_tx_fifo(self._sm)
SetGainDrain(t) == DrainStep(t, "sg_drain", "sg_put")

\* set_gain: self._sm.put(pioGain)
SetGainPut(t) == PutStep(t, "sg_put", "sg_get")

\* a sample read and discarded by set_gain
DiscardStep(t, p, q) ==
    /\ pc[t] = p
    /\ sm_get_blocking_ready
    /\ rxfifo' = RxAfterGet
    /\ delivered' = Append(delivered, rxfifo[1].id)
    /\ Goto(t, q)
    /\ UNCHANGED <<smActive, loaded, epc, x, y, osr, isr, isrCount, clk, txfifo>>
    /\ UNCHANGED <<mut, holder, now, calls, op, arg, val, obs, pending>>
    /\ UNCHANGED <<chipVars, cycleVars>>
    /\ UNCHANGED restVars

\* set_gain: self._sm.get()
SetGainGet(t) == DiscardStep(t, "sg_get", "sg_getb")

\* set_gain: _util.sm_get_blocking(self._sm)
SetGainGetBlocking(t) == DiscardStep(t, "sg_getb", "sg_unlock")

\* the host drives the clock pin
HostClk(v) ==
    /\ clk' = v
    /\ ChipEdge(v)

\* power_up: self.clock_pin.low()
PowerUpLow(t) ==
    /\ pc[t] = "pu_low"
    /\ HostClk(0)
    /\ Goto(t, "pu_restart")
    /\ UNCHANGED <<smActive, loaded, epc, x, y, osr, isr, isrCount, txfifo, rxfifo>>
    /\ UNCHANGED <<mut, holder, now, calls, op, arg, val, obs>>
    /\ UNCHANGED <<cycleVars, readVars>>
    /\ UNCHANGED restVars

\* power_up: self._sm.restart() clears the shift counters and the ISR and
\* jumps to the start of the program
PowerUpRestart(t) ==
    /\ pc[t] = "pu_restart"
    /\ epc' = "set_x"
    /\ isr' = 0
    /\ isrCount' = 0
    /\ isrCycs' = {}
    /\ Goto(t, "pu_drain")
    /\ UNCHANGED <<smActive, loaded, x, y, osr, clk, txfifo, rxfifo>>
    /\ UNCHANGED <<mut, holder, now, calls, op, arg, val, obs>>
    /\ UNCHANGED <<cyc, pulses, lastCode, lastPulses, convCode>>
    /\ UNCHANGED <<chipVars, readVars>>
    /\ UNCHANGED restVars

\* power_up: _util.sm_drain_tx_fifo(self._sm)
PowerUpDrain(t) == DrainStep(t, "pu_drain", "pu_put")

\* power_up: self._sm.put(pioGain)
PowerUpPut(t) == PutStep(t, "pu_put", "pu_active")

\* self._sm.active(v)
SetActive(t, p, q, v) ==
    /\ pc[t] = p
    /\ smActive' = v
    /\ Goto(t, q)
    /\ UNCHANGED <<loaded, epc, x, y, osr, isr, isrCount, clk, txfifo, rxfifo>>
    /\ UNCHANGED <<mut, holder, now, calls, op, arg, val, obs>>
    /\ UNCHANGED <<chipVars, cycleVars, readVars>>
    /\ up' = IF v THEN [cyc |-> cyc, code |-> arg[t]] ELSE up
    /\ UNCHANGED <<other, fnVars>>

\* power_up: self._sm.active(1)
PowerUpActive(t) == SetActive(t, "pu_active", "pu_unlock", TRUE)

\* power_down: self._sm.active(0)
PowerDownStop(t) == SetActive(t, "pd_stop", "pd_high", FALSE)

\* power_down: self.clock_pin.high(). The chip powers down once the line has
\* been high for POWER_DOWN_TIMEOUT, which the caller waits for
\* (wait_power_down) before the next power_up: it drops its conversion and
\* returns to its default gain.
PowerDownHigh(t) ==
    /\ pc[t] = "pd_high"
    /\ clk' = 1
    /\ ready' = FALSE
    /\ shifted' = 0
    /\ lastCode' = NoCode
    /\ Goto(t, "pd_unlock")
    /\ UNCHANGED <<smActive, loaded, epc, x, y, osr, isr, isrCount, txfifo, rxfifo>>
    /\ UNCHANGED <<mut, holder, now, calls, op, arg, val, obs>>
    /\ UNCHANGED <<chipRaw, convs, cyc, pulses, lastPulses, convCode, isrCycs>>
    /\ UNCHANGED readVars
    /\ UNCHANGED restVars

\* close: self._sm.active(0)
CloseStop(t) == SetActive(t, "cl_stop", "cl_remove", FALSE)

\* close: remove_program(self._prog.program)
CloseRemove(t) ==
    /\ pc[t] = "cl_remove"
    /\ loaded' = FALSE
    /\ other' = IF other.made
                    /\ get_pio_from_sm_index(other.slot) = get_pio_from_sm_index(SmIndex)
                THEN [other EXCEPT !.loaded = FALSE]
                ELSE other
    /\ Goto(t, "cl_unlock")
    /\ UNCHANGED <<smActive, epc, x, y, osr, isr, isrCount, clk, txfifo, rxfifo>>
    /\ UNCHANGED <<mut, holder, now, calls, op, arg, val, obs>>
    /\ UNCHANGED <<chipVars, cycleVars, readVars>>
    /\ UNCHANGED <<up, fnVars>>

\* hx711(clk2, dat2, slot): a second instance with the default prog argument,
\* the object the first instance has; prog.init loads self.program into the
\* PIO block of the slot unless that block holds it already
ConstructOther ==
    /\ ~other.made
    /\ \E slot \in OtherSlots :
         other' = [slot |-> slot, made |-> TRUE, active |-> FALSE, loaded |-> TRUE]
    /\ UNCHANGED <<engineVars, chipVars, cycleVars, hostVars, readVars>>
    /\ UNCHANGED <<up, fnVars>>

\* power_up of the second instance: self._sm.active(1) on its own state machine
OtherPowerUp ==
    /\ other.made /\ ~other.active
    /\ other' = [other EXCEPT !.active = TRUE]
    /\ UNCHANGED <<engineVars, chipVars, cycleVars, hostVars, readVars>>
    /\ UNCHANGED <<up, fnVars>>

\* __exit__: if self._mut.locked(): self._mut.release(); then self.close()
ExitRelease(t) ==
    /\ pc[t] = "ex_check"
    /\ mut' = FALSE
    /\ holder' = Nobody
    /\ Goto(t, "cl_lock")
    /\ UNCHANGED <<now, calls, op, arg, val, obs>>
    /\ UNCHANGED <<engineVars, chipVars, cycleVars, readVars>>
    /\ UNCHANGED restVars

\* the microsecond clock advances; only get_value_timeout reads it
Tick ==
    /\ now < MaxTime
    /\ \E t \in Threads : pc[t] \in {"gvt_lock", "gvt_loop"}
    /\ now' = now + 1
    /\ UNCHANGED <<mut, holder, calls, pc, op, arg, val, obs>>
    /\ UNCHANGED <<engineVars, chipVars, cycleVars, readVars>>
    /\ UNCHANGED restVars

ReadStep(t) ==
    \/ CallGetValue(t) \/ CallGetValueTimeout(t) \/ CallGetValueNoblock(t)
    \/ GetValueRead(t) \/ TimeoutPoll(t) \/ TimeoutExpire(t) \/ NoblockTry(t)

GainStep(t) ==
    \/ CallSetGain(t)
    \/ SetGainDrain(t) \/ SetGainPut(t) \/ SetGainGet(t) \/ SetGainGetBlocking(t)

PowerUpStep(t) ==
    \/ CallPowerUp(t)
    \/ PowerUpLow(t) \/ PowerUpRestart(t) \/ PowerUpDrain(t) \/ PowerUpPut(t)
    \/ PowerUpActive(t)

PowerDownStep(t) == CallPowerDown(t) \/ PowerDownStop(t) \/ PowerDownHigh(t)

CloseStep(t) == CallClose(t) \/ CloseStop(t) \/ CloseRemove(t)

ExitStep(t) == CallExit(t) \/ ExitRelease(t)

LockStep(t) == Acquire(t) \/ Release(t)

GetValueStep(t) == CallGetValue(t) \/ GetValueRead(t)

TimeoutStep(t) == CallGetValueTimeout(t) \/ TimeoutPoll(t) \/ TimeoutExpire(t)

(* --------------------------- class methods ---------------------------- *)
\* a call of get_twos_comp(rawIn)
Decode ==
    /\ signed = NoneVal
    /\ signed' = get_twos_comp(rawIn)
    /\ UNCHANGED <<rawIn, rateIn, settling, up, other>>
    /\ UNCHANGED <<engineVars, chipVars, cycleVars, hostVars, readVars>>

\* a call of get_settling_time(rateIn)
SettlingTime ==
    /\ settling = NotCalled
    /\ settling' = get_settling_time(rateIn)
    /\ UNCHANGED <<rawIn, rateIn, signed, up, other>>
    /\ UNCHANGED <<engineVars, chipVars, cycleVars, hostVars, readVars>>

(* --------------------------- specifications --------------------------- *)
\* the thread of a single caller
Caller == "main"

\* one caller using every operation of the driver
Next ==
    \/ EngineStep
    \/ ChipReady
    \/ Tick
    \/ ReadStep(Caller) \/ GainStep(Caller) \/ PowerUpStep(Caller) \/ PowerDownStep(Caller)
    \/ CloseStep(Caller) \/ ExitStep(Caller) \/ LockStep(Caller)

Spec == Init /\ [][Next]_vars

\* the engine left running by a caller that powers the chip up and does not read
EngineNext ==
    \/ EngineStep
    \/ ChipReadyLong
    \/ PowerUpStep(Caller) \/ LockStep(Caller)

EngineSpec == Init /\ [][EngineNext]_vars

\* two threads sharing the driver instance: the caller, which powers the chip
\* up and closes the driver or leaves its `with` block, and a reader
Reader == "reader"

ThreadNext ==
    \/ EngineStep
    \/ ChipReady
    \/ PowerUpStep(Caller) \/ CloseStep(Caller) \/ ExitStep(Caller)
    \/ GetValueStep(Reader)
    \/ \E t \in Threads : LockStep(t)

ThreadSpec == Init /\ [][ThreadNext]_vars

\* one caller that powers the chip up and reads
ReadNext ==
    \/ EngineStep
    \/ ChipReady
    \/ Tick
    \/ ReadStep(Caller) \/ PowerUpStep(Caller) \/ LockStep(Caller)

ReadSpec == Init /\ [][ReadNext]_vars

\* one caller of the blocking read; the engine, the chip and a thread inside
\* an operation keep running
LiveNext ==
    \/ EngineStep
    \/ ChipReady
    \/ GetValueStep(Caller) \/ PowerUpStep(Caller) \/ LockStep(Caller)

\* the steps of a thread inside a read operation
Running(t) ==
    \/ GetValueRead(t) \/ TimeoutPoll(t) \/ TimeoutExpire(t)
    \/ Acquire(t) \/ Release(t)

LiveSpec ==
    /\ Init
    /\ [][LiveNext]_vars
    /\ WF_vars(EngineStep)
    /\ WF_vars(ChipReady)
    /\ WF_vars(Running(Caller))

\* threads calling the timed read on an engine that was never started and so
\* never produces a sample; the clock and the threads keep running
TimeoutNext ==
    \/ Tick
    \/ \E t \in Threads : TimeoutStep(t) \/ LockStep(t)

TimeoutSpec ==
    /\ Init
    /\ [][TimeoutNext]_vars
    /\ WF_vars(Tick)
    /\ \A t \in Threads : WF_vars(Running(t))

\* one caller that powers the chip up and changes the gain
GainNext ==
    \/ EngineStep
    \/ ChipReady
    \/ PowerUpStep(Caller) \/ GainStep(Caller) \/ LockStep(Caller)

GainSpec == Init /\ [][GainNext]_vars

\* the calls of a caller that powers the chip up and down and reads
CyclePowerUp(t) ==
    /\ ~smActive
    /\ \E g \in Gains :
         CallUpTo(MaxCycleCalls, t, "power_up", "pu_lock", gain_to_pio_gain(g))
    /\ pending' = NoCode

CyclePowerDown(t) ==
    CallUpTo(MaxCycleCalls, t, "power_down", "pd_lock", 0) /\ pending' = NoCode

CycleGetValue(t) ==
    CallUpTo(MaxCycleCalls, t, "get_value", "gv_lock", 0) /\ UNCHANGED pending

\* one caller that powers the chip up and down, as often as MaxCycleCalls
\* allows, and reads
CycleNext ==
    \/ EngineStep
    \/ ChipReady
    \/ CyclePowerUp(Caller) \/ CyclePowerDown(Caller) \/ CycleGetValue(Caller)
    \/ PowerUpLow(Caller) \/ PowerUpRestart(Caller) \/ PowerUpDrain(Caller)
    \/ PowerUpPut(Caller) \/ PowerUpActive(Caller)
    \/ PowerDownStop(Caller) \/ PowerDownHigh(Caller)
    \/ GetValueRead(Caller)
    \/ LockStep(Caller)

CycleSpec == Init /\ [][CycleNext]_vars

\* one caller that powers the chip up and closes the driver, beside a second
\* instance on another state machine
CloseNext ==
    \/ EngineStep
    \/ ChipReady
    \/ PowerUpStep(Caller) \/ CloseStep(Caller) \/ LockStep(Caller)
    \/ ConstructOther \/ OtherPowerUp

CloseSpec == Init /\ [][CloseNext]_vars

\* the class methods called on every argument of the input sets
FnInit ==
    /\ DriverInit
    /\ rawIn \in RawInputs /\ signed = NoneVal
    /\ rateIn \in RateInputs /\ settling = NotCalled

FnNext == Decode \/ SettlingTime

FnSpec == FnInit /\ [][FnNext]_vars

(* ------------------------------- claims ------------------------------- *)
\* the value the operation of thread t returns once it holds its result
ReturnValue(t) ==
    IF op[t] = "get_value" THEN get_twos_comp(val[t]) ELSE ReturnOf(val[t])

\* C1: for every gain g, a conversion cycle the engine ran with the code
\* gain_to_pio_gain(g) emitted exactly CLOCK_PULSES[g] clock pulses
C1_PulsesPerCycle ==
    \A g \in Gains :
        (lastPulses > 0 /\ lastCode = gain_to_pio_gain(g)) => lastPulses = get_clock_pulses(g)

\* C2: the first sample get_value takes after set_gain(g) returned was
\* converted under g (the cycle before its conversion used the code of g)
C2_NextValueUnderNewGain ==
    \A t \in Threads :
        (pc[t] = "gv_unlock" /\ obs[t].want # NoCode) => obs[t].code = obs[t].want

\* C3: get_value_noblock returns the decoded oldest sample whenever the queue
\* held at least one sample at its check, and None when the queue was empty
C3_NoblockReturnsQueued ==
    \A t \in Threads :
        pc[t] = "gvn_unlock" =>
            ReturnValue(t) = IF obs[t].n >= 1 THEN get_twos_comp(obs[t].head) ELSE NoneVal

\* C4: get_value_timeout returns None only when no sample was in the output
\* queue at any of its checks before the deadline
C4_TimeoutReturnsSample ==
    \A t \in Threads :
        (pc[t] = "gvt_unlock" /\ ReturnValue(t) = NoneVal) => ~obs[t].saw

\* C6: the push of a completed sample never blocks the engine
C6_PushNeverBlocks == ~EngineStalled

\* C8: at most one thread is inside a lock-guarded block, the holder of the
\* lock is inside one, and the lock is free when no operation is in progress
C8_LockDiscipline ==
    /\ Cardinality({t \in Threads : pc[t] \in GuardedPcs}) <= 1
    /\ mut => (holder \in Threads /\ pc[holder] \in GuardedPcs)
    /\ (\A t \in Threads : pc[t] = "idle") => ~mut

\* C5: get_value_timeout ends; with no sample seen it returns None and not
\* before the deadline, it does not poll once the deadline is reached, and
\* the lock is free when it returns
C5_TimeoutTerminates ==
    /\ \A t \in Threads : (pc[t] = "gvt_lock") ~> (pc[t] = "idle")
    /\ [][\A t \in Threads :
            /\ (pc[t] = "gvt_loop" /\ pc'[t] = "gvt_unlock" /\ ~obs'[t].saw)
                => (ReturnValue(t)' = NoneVal /\ now >= arg[t])
            /\ (pc[t] = "gvt_loop" /\ now >= arg[t])
                => (obs'[t] = obs[t] /\ val'[t] = val[t])
            /\ (pc[t] = "gvt_unlock" /\ pc'[t] = "idle") => ~mut']_vars

C5_Witness ==
    /\ pc[Caller] = "gvt_unlock"
    /\ ~smActive /\ rxfifo = <<>> /\ ~obs[Caller].saw
    /\ val[Caller] = NoneVal
    /\ now >= arg[Caller]

\* C7: a thread that called close() is not past the lock of close (stopping
\* the engine, removing the program) while another thread is inside get_value
C7_CloseWaitsForRead ==
    \A t, u \in Threads :
        ~(/\ op[t] = "close" /\ pc[t] \in {"cl_stop", "cl_remove", "cl_unlock"}
          /\ op[u] = "get_value" /\ pc[u] \in {"gv_read", "gv_unlock"})

C7_Witness ==
    /\ op[Caller] = "close" /\ pc[Caller] = "cl_lock"
    /\ pc[Reader] = "gv_unlock"
    /\ smActive /\ loaded /\ mut /\ holder = Reader

\* C9: get_value leaves its wait only with a sample in the output queue and
\* takes the oldest one, whose decoded reading it returns; with the engine
\* running and a conversion still to come it returns and the lock is free
C9_GetValueReturnsOldest ==
    /\ [][\A t \in Threads :
            (pc[t] = "gv_read" /\ pc'[t] = "gv_unlock")
                => /\ rxfifo # <<>>
                   /\ val'[t] = rxfifo[1].raw
                   /\ ReturnValue(t)' = get_twos_comp(rxfifo[1].raw)
                   /\ ReturnValue(t)' \in MIN_VALUE..MAX_VALUE]_vars
    /\ (pc[Caller] = "gv_read" /\ smActive /\ convs < MaxConv)
          ~> (pc[Caller] = "idle" /\ ~mut)

C9_Witness ==
    /\ pc[Caller] = "gv_unlock"
    /\ obs[Caller].n >= 2
    /\ ReturnValue(Caller) < 0

\* C10: the samples taken from the output queue are conversion cycles of the
\* engine in increasing order, none twice, the queued ones follow them in
\* order, and every word holds the bits of one cycle only
C10_FifoOrder ==
    /\ \A i, j \in 1..Len(delivered) : i < j => delivered[i] < delivered[j]
    /\ \A i \in 1..Len(delivered) : delivered[i] \in 1..cyc
    /\ \A i, j \in 1..Len(rxfifo) : i < j => rxfifo[i].id < rxfifo[j].id
    /\ \A i \in 1..Len(rxfifo) :
        /\ rxfifo[i].cycs = {rxfifo[i].id}
        /\ rxfifo[i].id \in 1..cyc
        /\ \A j \in 1..Len(delivered) : delivered[j] < rxfifo[i].id

C10_Witness ==
    /\ Len(delivered) >= 2
    /\ pc[Caller] = "gv_unlock"
    /\ rxfifo # <<>>

C12_CloseLeavesClockLow ==
    (~loaded /\ \A t \in Threads : pc[t] = "idle") => clk = 0

\* C13: get_settling_time gives 400 for rate_10 (index 0) and 50 for rate_80
\* (index 1), and an error for every other index, the negative ones included
C13_SettlingTimeOrError ==
    settling # NotCalled =>
        /\ (rateIn = 0 => settling = 400)
        /\ (rateIn = 1 => settling = 50)
        /\ (rateIn \notin {0, 1} => settling = IndexError)

\* a step of the running engine: every instruction moves its position
EngineMoves == smActive /\ epc' # epc

\* C14: the program takes a gain code from the input queue only at its pull
\* instructions: once before the first cycle after a start, and in the cycle
\* loop only after the 24 data pulses, with the sample of the cycle already
\* pushed; x, the code in use, changes in the loop only at the out that
\* follows. Every pushed word is the 24 bits of the conversion of its cycle.
\* The sample of the cycle that takes a code was converted under the code in
\* use before, and the conversion read by the next cycle is the first one
\* made under the new code
C14_GainAppliesNextCycle ==
    [][/\ (EngineMoves /\ txfifo' # txfifo)
            => \/ epc = "pull0"
               \/ epc = "pull" /\ pulses = READ_BITS /\ isrCount = 0
       /\ (EngineMoves /\ x' # x /\ epc \notin Preamble)
            => (epc = "out" /\ pulses = READ_BITS + 1)
       /\ (Len(rxfifo') > Len(rxfifo))
            => /\ epc = "in" /\ pulses = READ_BITS
               /\ rxfifo'[Len(rxfifo')] =
                      [raw |-> chipRaw, id |-> cyc, code |-> convCode, cycs |-> {cyc}]
       /\ (EngineMoves /\ epc = "out" /\ cyc > up.cyc + 1) => convCode = x
       /\ (EngineMoves /\ epc = "wait" /\ cyc > up.cyc) => convCode' = x]_vars

C14_Witness ==
    /\ smActive /\ epc = "jmp_notx"
    /\ cyc >= 2
    /\ convCode # NoCode /\ convCode # x
    /\ txfifo = <<>>

\* C15: with no further gain code from the host, the code in use does not
\* change once the engine is in its cycle loop, an empty input queue leaves
\* it as it is, and every cycle emits the pulses of the cycle before it
C15_GainSticky ==
    [][/\ (EngineMoves /\ epc \notin Preamble) => x' = x
       /\ (EngineMoves /\ epc = "pull" /\ txfifo = <<>>) => osr' = x
       /\ (lastPulses > 0 /\ lastPulses' # lastPulses) => ~smActive
       /\ (lastPulses > 0 /\ smActive) => lastCode' = lastCode]_vars

C15_Witness ==
    /\ smActive /\ txfifo = <<>>
    /\ cyc >= 3 /\ epc = "set_y"
    /\ lastCode = 2 /\ x = 2

\* C16: when power_up(g) is about to start the engine the clock line is low
\* and the input queue holds the code of g and nothing else; the first cycle
\* the engine completes after the start was run with that code and emitted
\* CLOCK_PULSES[g] pulses
C16_PowerUpAppliesGain ==
    /\ \A t \in Threads :
          pc[t] = "pu_active" => (clk = 0 /\ txfifo = <<arg[t]>>)
    /\ (smActive /\ cyc = up.cyc + 1 /\ epc \in {"set_y", "wait"})
          => /\ lastCode = up.code
             /\ \A g \in Gains :
                   up.code = gain_to_pio_gain(g) => lastPulses = get_clock_pulses(g)

\* C17: a read operation that removed a raw sample from the output queue
\* returns its decoded reading, whatever the 24 bits are, and returns no
\* value only when it removed nothing
C17_RemovedSampleReturned ==
    \A t \in Threads :
        pc[t] \in {"gv_unlock", "gvt_unlock", "gvn_unlock"} =>
            ReturnValue(t) = IF val[t] # NoneVal THEN get_twos_comp(val[t]) ELSE NoneVal

\* C18: a running engine that cannot execute its next instruction is at the
\* data-ready wait and the clock line is low
C18_SuspendedOnlyAtWait ==
    (smActive /\ ~ENABLED EngineStep) => (epc = "wait" /\ clk = 0)

\* C19: a value get_value returns was clocked out by a conversion cycle that
\* began after the latest start of the engine by power_up
C19_ReadAfterPowerUpIsFresh ==
    \A t \in Threads :
        (pc[t] = "gv_unlock" /\ delivered # <<>>)
            => delivered[Len(delivered)] > up.cyc

\* C20: close() on one instance leaves a second instance that was constructed
\* on another state machine and powered up as it was: its engine running and
\* its program still loaded
C20_CloseLeavesOtherInstance ==
    [][\A t \in Threads :
         (pc[t] \in {"cl_stop", "cl_remove"} /\ pc'[t] # pc[t] /\ other.active)
             => other' = other]_vars

====
